---------------------------- MODULE Spec2Model ----------------------------
(***************************************************************************)
(* Model of the Backpack volume bot (src/main.py, src/main_tui.py).        *)
(*                                                                         *)
(* One asyncio event loop runs two coroutines: the controller (the TUI     *)
(* menu, run_volume and BackpackClient.close_all_positions) and the input  *)
(* listener (_handle_input).  A coroutine runs without interruption from   *)
(* one suspension to the next, so the listener acts only while the         *)
(* controller is suspended in an await that really yields: a sleep, a Live *)
(* HTTP call, the join of the listener, or the menu prompt.  A Simulated   *)
(* _request returns without yielding.                                      *)
(*                                                                         *)
(* Quantities are counted in units of 0.00001, so 0.0001 is 10 and         *)
(* -0.0003 is -30.                                                         *)
(***************************************************************************)
EXTENDS Integers, Sequences, FiniteSets, TLC

(* ------------------------------ bounds -------------------------------- *)

MaxOrderCount == 2

MaxCycles == 1

MaxCycleNum == 2

MaxPositions == 2

MaxParams == 3

(* ------------------------- program constants -------------------------- *)

FlatThreshold == 10

ErrorStatus == 400

DefaultNetSize == 0

(* ------------------------------ inputs -------------------------------- *)

Symbols == {"SOL"}

Sizes == {1000}

\* unset, blank, set
KeyEnvValues == {"", " ", "key"}

\* unset, blank, not base64, base64 of 6 bytes, base64 of 32 bytes
SecretEnvValues ==
    {"", " ", "not base64!", "c2VjcmV0",
     "AAECAwQFBgcICQoLDA0ODxAREhMUFRYXGBkaGxwdHh8="}

\* the values that decode to the 32 bytes of an Ed25519 private key
ValidSecrets == {"AAECAwQFBgcICQoLDA0ODxAREhMUFRYXGBkaGxwdHh8="}

InputLines == {"p\n", "P\n", " r \n", "r\n", "q\n", "Q \n", "c\n", "C\n",
               "x\n", "pq\n", "\n", ""}

StatusCodes == {200, 399, 400, 500}

\* a position record: a net size at the threshold or beyond it, no netSize
\* at all (a flat position), or a netSize that is not a number
PosRecords ==
    { [shape |-> "num", netSize |-> n] : n \in {10, -30} }
      \cup { [shape |-> "missing", netSize |-> 0],
             [shape |-> "bad", netSize |-> 0] }

OrderAck == [shape |-> "ack", netSize |-> 0]

RECURSIVE SeqsUpTo(_, _)
SeqsUpTo(S, n) ==
    IF n = 0 THEN {<<>>}
    ELSE LET shorter == SeqsUpTo(S, n - 1)
         IN  shorter \cup { Append(s, x) : s \in {t \in shorter : Len(t) = n - 1},
                                           x \in S }

(* ------------------------------- state -------------------------------- *)

VARIABLES
    api_key, api_secret, simulated, private_key,   \* BackpackClient fields
    paused, stop_requested, close_and_stop,        \* control flags
    pc,                                            \* controller position
    symbol, size, order_count, cycles,             \* run_volume arguments
    cycle_num, side, i, status,                    \* run_volume locals
    positions, k, closeRet, noPosMsg,              \* close_all_positions
    closeFailed,                                   \* ... a call of it failed
    result, net,                                   \* _request: value, in flight
    listener,                                      \* input_task
    reader,                                        \* to_thread worker of line 378
    log,                                           \* requests dispatched
    sign_args, sign_str,                           \* _sign: arguments, sign_str
    stopSeen, closeSeen, cmdSeen, raised           \* history of the run

client == <<api_key, api_secret, simulated, private_key>>

flags == <<paused, stop_requested, close_and_stop>>

args == <<symbol, size, order_count, cycles>>

closeLocals == <<positions, k, closeRet, noPosMsg, closeFailed>>

history == <<stopSeen, closeSeen, cmdSeen, raised>>

signing == <<sign_args, sign_str>>

vars == <<client, flags, pc, args, cycle_num, side, i, status, closeLocals,
          result, net, listener, reader, log, signing, history>>


(* ------------------- BackpackClient.__init__ -------------------------- *)

\* str.strip() on the values the environment can hold
Strip(s) == IF s = " " THEN "" ELSE s

\* base64.b64decode followed by Ed25519PrivateKey.from_private_bytes:
\* TRUE when both succeed
DecodesToKey(secret) == secret \in ValidSecrets

\* self.simulated after lines 40-53
SimulatedMode(key, secret) ==
    IF ~(key # "" /\ secret # "") THEN TRUE
    ELSE IF DecodesToKey(secret) THEN FALSE
    ELSE TRUE

\* self._private_key after lines 42-53
PrivateKeyOf(key, secret) ==
    IF SimulatedMode(key, secret) THEN "none" ELSE "ed25519"

(* ------------------------------ _sign --------------------------------- *)

\* a parameter value: a string, None, or a boolean; s is what str() gives
StrVal(text) == [t |-> "str", s |-> text]

NoneVal == [t |-> "none", s |-> "None"]

BoolVal(b) == [t |-> "bool", s |-> IF b THEN "True" ELSE "False"]

\* the keys of the parameter mappings, in the order Python compares strings
KeyOrder ==
    <<"orderId", "orderType", "postOnly", "price", "quantity", "side", "symbol">>

\* the entries a parameter mapping is made of in the model
ParamItems ==
    {[key |-> "symbol", val |-> StrVal("SOL_USDC")]}
      \cup {[key |-> "price", val |-> v] : v \in {NoneVal, StrVal("1.5")}}
      \cup {[key |-> "postOnly", val |-> v] :
                v \in {NoneVal, BoolVal(TRUE), BoolVal(FALSE)}}
      \cup {[key |-> "orderId", val |-> v] : v \in {NoneVal, StrVal("7")}}

\* a dict: its entries in insertion order, no key twice
IsMapping(ps) ==
    \A m, n \in 1..Len(ps) : m # n => ps[m].key # ps[n].key

ParamMappings == {ps \in SeqsUpTo(ParamItems, MaxParams) : IsMapping(ps)}

Instructions == {"orderExecute", "orderCancelAll"}

\* readings of time() in milliseconds, and self.window_ms
Timestamps == {"1762300800000", "1762300800001"}

WindowMs == "5000"

KeyRank(key) == CHOOSE n \in 1..Len(KeyOrder) : KeyOrder[n] = key

\* sorted(params.items()), line 77: insertion of each entry at its place
RECURSIVE InsertByKey(_, _)
InsertByKey(item, sorted) ==
    IF sorted = <<>> THEN <<item>>
    ELSE IF KeyRank(item.key) < KeyRank(Head(sorted).key)
         THEN <<item>> \o sorted
         ELSE <<Head(sorted)>> \o InsertByKey(item, Tail(sorted))

\* mutant of SortedItems: the entries are left in insertion order
SortedItems_Unsorted(ps) == ps

RECURSIVE SortedItems(_)
SortedItems(ps) ==
    IF ps = <<>> THEN <<>>
    ELSE InsertByKey(ps[Len(ps)], SortedItems(SubSeq(ps, 1, Len(ps) - 1)))

\* str(value).lower() of a boolean, line 81
Lower(text) ==
    CASE text = "True" -> "true"
      [] text = "False" -> "false"
      [] OTHER -> text

\* lines 78-82: the "key=value" strings of the sorted entries
RECURSIVE SortedParams(_)
SortedParams(items) ==
    IF items = <<>> THEN <<>>
    ELSE IF Head(items).val.t = "none" THEN SortedParams(Tail(items))
    ELSE <<Head(items).key \o "=" \o
             (IF Head(items).val.t = "bool" THEN Lower(Head(items).val.s)
              ELSE Head(items).val.s)>> \o SortedParams(Tail(items))

\* "&".join(parts)
RECURSIVE Join(_)
Join(parts) ==
    IF Len(parts) = 1 THEN parts[1]
    ELSE parts[1] \o "&" \o Join(Tail(parts))

\* lines 73-86: sign_str
SignStr(instruction, params, timestamp, window) ==
    LET head == "instruction=" \o instruction
        parts == IF params # <<>> THEN SortedParams(SortedItems(params)) ELSE <<>>
        body == IF parts # <<>> THEN head \o "&" \o Join(parts) ELSE head
    IN  body \o "&timestamp=" \o timestamp \o "&window=" \o window

\* str(quantity) for the quantities of the model (units of 0.00001)
QuantityStr(q) ==
    CASE q = 1000 -> "0.01"
      [] q = 30 -> "0.0003"
      [] q = 10 -> "0.0001"
      [] OTHER -> "?"

\* no call of _sign yet
NoSign == [instruction |-> "-", params |-> <<>>, timestamp |-> "-", window |-> "-"]

(* --------------------------- _request --------------------------------- *)

Idle == [kind |-> "idle", items |-> <<>>]

Pending == [kind |-> "pending", items |-> <<>>]

None == [kind |-> "None", items |-> <<>>]

EmptyObj == [kind |-> "obj", items |-> <<>>]

\* Python truthiness of a _request return value
Truthy(r) == r.kind \in {"obj", "list"} /\ r.items # <<>>

\* the bodies a server can send for an instruction
Bodies(instr) ==
    IF instr = "positionQuery"
    THEN {[kind |-> "list", items |-> s] : s \in SeqsUpTo(PosRecords, MaxPositions)}
           \cup {[kind |-> "obj", items |-> <<r>>] : r \in PosRecords}
           \cup {EmptyObj}
    ELSE {[kind |-> "obj", items |-> <<OrderAck>>], EmptyObj}

\* what the transport can do with a Live call: raise, or answer with a
\* status code and a text (empty, JSON, or not JSON)
HttpOutcomes(instr) ==
    {[exc |-> TRUE, code |-> 0, text |-> "", json |-> EmptyObj]}
      \cup {[exc |-> FALSE, code |-> c, text |-> "", json |-> EmptyObj] :
                c \in StatusCodes}
      \cup {[exc |-> FALSE, code |-> c, text |-> "garbage", json |-> EmptyObj] :
                c \in StatusCodes}
      \cup {[exc |-> FALSE, code |-> c, text |-> "json", json |-> b] :
                c \in StatusCodes, b \in Bodies(instr)}

\* lines 120-144: the value _request returns for a Live call
LiveResult(method, o) ==
    IF method \notin {"GET", "POST", "DELETE"} THEN None
    ELSE IF o.exc THEN None
    ELSE IF o.code >= ErrorStatus THEN None
    ELSE IF o.text = "" THEN EmptyObj
    ELSE IF o.text = "garbage" THEN None
    ELSE o.json

\* lines 146-172
SimulateResponse(instr) ==
    IF instr = "balanceQuery" THEN [kind |-> "obj", items |-> <<OrderAck>>]
    ELSE IF instr = "positionQuery" THEN [kind |-> "list", items |-> <<>>]
    ELSE IF instr = "orderExecute" THEN [kind |-> "obj", items |-> <<OrderAck>>]
    ELSE IF instr = "orderCancel" THEN [kind |-> "obj", items |-> <<OrderAck>>]
    ELSE IF instr = "orderCancelAll" THEN [kind |-> "obj", items |-> <<OrderAck>>]
    ELSE EmptyObj

\* the request an OrderOperations method hands to _request
ExecuteOrderReq(sym, sd, qty, otype) ==
    [instr |-> "orderExecute", method |-> "POST", symbol |-> sym \o "_USDC",
     side |-> sd, orderType |-> otype, quantity |-> qty,
     params |-> <<[key |-> "symbol", val |-> StrVal(sym \o "_USDC")],
                  [key |-> "side", val |-> StrVal(sd)],
                  [key |-> "orderType", val |-> StrVal(otype)],
                  [key |-> "quantity", val |-> StrVal(QuantityStr(qty))]>>]

CancelAllOrdersReq(sym) ==
    [instr |-> "orderCancelAll", method |-> "DELETE", symbol |-> sym \o "_USDC",
     side |-> "-", orderType |-> "-", quantity |-> 0,
     params |-> <<[key |-> "symbol", val |-> StrVal(sym \o "_USDC")]>>]

GetPositionsReq(sym) ==
    [instr |-> "positionQuery", method |-> "GET", symbol |-> sym \o "_USDC_PERP",
     side |-> "-", orderType |-> "-", quantity |-> 0,
     params |-> <<[key |-> "symbol", val |-> StrVal(sym \o "_USDC_PERP")]>>]

\* the requests the controller can make
ModelRequests ==
    {ExecuteOrderReq(sym, sd, qty, "Market") :
        sym \in Symbols, sd \in {"Bid", "Ask"},
        qty \in Sizes \cup {IF r.netSize < 0 THEN -r.netSize ELSE r.netSize :
                                r \in PosRecords}}
      \cup {CancelAllOrdersReq(sym) : sym \in Symbols}
      \cup {GetPositionsReq(sym) : sym \in Symbols}

\* get_positions' normalisation of the value _request returned
NormalizePositions(r) ==
    IF r.kind = "None" THEN <<>>
    ELSE IF r.kind = "list" THEN r.items
    ELSE IF Truthy(r) THEN r.items
    ELSE <<>>

(* ----------------------- close_all_positions -------------------------- *)

\* float(pos.get("netSize", 0)) raises on a value that is not a number
FloatRaises(pos) == pos.shape = "bad"

NetSizeOf(pos) == IF pos.shape = "missing" THEN DefaultNetSize ELSE pos.netSize

Abs(n) == IF n < 0 THEN -n ELSE n

Skipped(pos) == Abs(NetSizeOf(pos)) < FlatThreshold

FlattenSide(pos) == IF NetSizeOf(pos) > 0 THEN "Ask" ELSE "Bid"

(* --------------------------- _handle_input ---------------------------- *)

\* line.strip().lower() on the lines the operator can type
StripLower(line) ==
    CASE line \in {"p\n", "P\n"} -> "p"
      [] line \in {" r \n", "r\n"} -> "r"
      [] line \in {"q\n", "Q \n"} -> "q"
      [] line \in {"c\n", "C\n"} -> "c"
      [] line = "x\n" -> "x"
      [] line = "pq\n" -> "pq"
      [] OTHER -> ""

(* ------------------------------- Init --------------------------------- *)

Init ==
    /\ \E keyEnv \in KeyEnvValues, secretEnv \in SecretEnvValues :
          /\ api_key = Strip(keyEnv)
          /\ api_secret = Strip(secretEnv)
          /\ simulated = SimulatedMode(Strip(keyEnv), Strip(secretEnv))
          /\ private_key = PrivateKeyOf(Strip(keyEnv), Strip(secretEnv))
    /\ paused = FALSE
    /\ stop_requested = FALSE
    /\ close_and_stop = FALSE
    /\ pc = "menu"
    /\ symbol = "SOL"
    /\ size = 1000
    /\ order_count = 1
    /\ cycles = 1
    /\ cycle_num = 0
    /\ side = "-"
    /\ i = 0
    /\ status = "-"
    /\ positions = <<>>
    /\ k = 0
    /\ closeRet = "-"
    /\ noPosMsg = FALSE
    /\ closeFailed = FALSE
    /\ result = Idle
    /\ net = {}
    /\ listener = "none"
    /\ reader = "none"
    /\ log = <<>>
    /\ sign_args = NoSign
    /\ sign_str = ""
    /\ stopSeen = FALSE
    /\ closeSeen = FALSE
    /\ cmdSeen = FALSE
    /\ raised = FALSE

(* ------------------------ _request, dispatch -------------------------- *)

LogEntry(req, kind, cyc, idx) ==
    [instr |-> req.instr, method |-> req.method, symbol |-> req.symbol,
     side |-> req.side, orderType |-> req.orderType, quantity |-> req.quantity,
     kind |-> kind, cycle |-> cyc, idx |-> idx,
     via |-> IF simulated THEN "sim" ELSE "net",
     signedWith |-> IF simulated THEN "-" ELSE private_key]

\* the clock reading of line 69, which the model does not advance
Now == "1762300800000"

\* line 118: headers = self._sign(instruction, params or json_body)
SignCall(req) ==
    [instruction |-> req.instr, params |-> req.params, timestamp |-> Now,
     window |-> WindowMs]

\* the sign_str that _sign builds for each request of the model at the
\* clock reading Now, worked out once
SignedStr == [req \in ModelRequests |->
                 SignStr(req.instr, req.params, Now, WindowMs)]

\* mutant of Request: the test of self.simulated (line 112) is missing
Request_IgnoresMode(req, kind, cyc, idx) ==
    /\ log' = Append(log, [LogEntry(req, kind, cyc, idx) EXCEPT
                              !.via = "net", !.signedWith = private_key])
    /\ result' = Pending
    /\ net' = net \cup {Len(log) + 1}
    /\ sign_args' = SignCall(req)
    /\ sign_str' = SignedStr[req]

\* _request, up to its first suspension: a Simulated client answers at once
\* from _simulate_response; a Live one signs and puts the call on the wire
Request(req, kind, cyc, idx) ==
    /\ log' = Append(log, LogEntry(req, kind, cyc, idx))
    /\ result' = IF simulated THEN SimulateResponse(req.instr) ELSE Pending
    /\ net' = IF simulated THEN net ELSE net \cup {Len(log) + 1}
    /\ sign_args' = IF simulated THEN sign_args ELSE SignCall(req)
    /\ sign_str' = IF simulated THEN sign_str ELSE SignedStr[req]

\* the awaited call has returned
Returned == result # Pending

\* the HTTP call of a Live _request completes: response or exception
NetRespond ==
    /\ \E id \in net : \E o \in HttpOutcomes(log[id].instr) :
          /\ net' = net \ {id}
          /\ result' = IF id = Len(log) /\ result = Pending
                       THEN LiveResult(log[id].method, o)
                       ELSE result
    /\ UNCHANGED <<client, flags, pc, args, cycle_num, side, i, status,
                   closeLocals, listener, reader, log, signing, history>>

(* --------------------------- _handle_input ---------------------------- *)

\* the controller is suspended in an await that yields to the event loop
AtYield ==
    \/ pc \in {"sleep", "delay", "join", "menu"}
    \/ pc \in {"order", "close_cancel", "close_query", "close_order"} /\ ~simulated

\* the three flags as one value
FlagsNow ==
    [paused |-> paused, stop_requested |-> stop_requested,
     close_and_stop |-> close_and_stop]

\* mutant of FlagsAfter: "q" also resumes, and an unknown command stops
FlagsAfter_Sloppy(cmd, f) ==
    [paused |-> IF cmd = "p" THEN TRUE
                ELSE IF cmd \in {"r", "q"} THEN FALSE ELSE f.paused,
     stop_requested |-> IF cmd \in {"q", "pq"} THEN TRUE ELSE f.stop_requested,
     close_and_stop |-> IF cmd = "c" THEN TRUE ELSE f.close_and_stop]

\* lines 381-392: the flags after the command cmd has been handled
FlagsAfter(cmd, f) ==
    [paused |-> IF cmd = "p" THEN TRUE
                ELSE IF cmd = "r" THEN FALSE ELSE f.paused,
     stop_requested |-> IF cmd = "q" THEN TRUE ELSE f.stop_requested,
     close_and_stop |-> IF cmd = "c" THEN TRUE ELSE f.close_and_stop]

\* one line read and handled, lines 378-392
HandleInput ==
    /\ listener = "reading"
    /\ AtYield
    /\ \E line \in InputLines :
         LET cmd == StripLower(line) IN
           /\ paused' = FlagsAfter(cmd, FlagsNow).paused
           /\ stop_requested' = FlagsAfter(cmd, FlagsNow).stop_requested
           /\ close_and_stop' = FlagsAfter(cmd, FlagsNow).close_and_stop
           /\ stopSeen' = (stopSeen \/ cmd = "q")
           /\ closeSeen' = (closeSeen \/ cmd = "c")
           /\ cmdSeen' = (cmdSeen \/ cmd \in {"p", "r", "q", "c"})
    /\ UNCHANGED <<client, pc, args, cycle_num, side, i, status, closeLocals,
                   result, net, listener, reader, log, signing, raised>>

\* the CancelledError thrown into the listener's await ends it, lines 393-394
ListenerExit ==
    /\ listener = "cancelled"
    /\ pc = "join"
    /\ listener' = "none"
    /\ UNCHANGED <<reader, client, flags, pc, args, cycle_num, side, i, status,
                   closeLocals, result, net, log, signing, history>>

\* line 378 after the cancellation: the worker thread that to_thread
\* started is still blocked in sys.stdin.readline; it ends when the operator
\* types the next line, which it takes and drops.  One thread is kept track
\* of: the threads of earlier runs that are still blocked are not counted.
StaleRead ==
    /\ reader = "blocked"
    /\ listener # "reading"
    /\ reader' = "none"
    /\ UNCHANGED <<client, flags, pc, args, cycle_num, side, i, status,
                   closeLocals, result, net, listener, log, signing, history>>

(* ----------------------- close_all_positions -------------------------- *)

\* mutant of CloseExit: the break of line 327 is missing
CloseExit_NoBreak == IF closeRet = "run_volume" THEN "loop_head" ELSE "done"

\* where the caller goes on after close_all_positions: the break of line
\* 327 (or the exception) leads to the finally block of run_volume; the TUI
\* goes back to its menu
CloseExit == IF closeRet = "run_volume" THEN "finally" ELSE "done"

\* lines 229-232: the call, up to the await of cancel_all_orders
CloseAllPositions(sym) ==
    /\ Request(CancelAllOrdersReq(sym), "cancelAll", 0, 0)
    /\ pc' = "close_cancel"
    /\ positions' = <<>>
    /\ k' = 0
    /\ noPosMsg' = FALSE
    /\ closeFailed' = FALSE

\* lines 232-235: cancel_all_orders returned, get_positions is called
CancelReturn ==
    /\ pc = "close_cancel"
    /\ Returned
    /\ Request(GetPositionsReq(symbol), "positions", 0, 0)
    /\ pc' = "close_query"
    /\ closeFailed' = (closeFailed \/ result = None)
    /\ UNCHANGED <<client, flags, args, cycle_num, side, i, status, positions,
                   k, closeRet, noPosMsg, listener, reader, history>>

\* lines 235-238: get_positions returned
QueryReturn ==
    /\ pc = "close_query"
    /\ Returned
    /\ positions' = NormalizePositions(result)
    /\ IF NormalizePositions(result) = <<>>
       THEN /\ noPosMsg' = TRUE
            /\ k' = k
            /\ pc' = "close_over"
       ELSE /\ noPosMsg' = noPosMsg
            /\ k' = 1
            /\ pc' = "close_loop"
    /\ result' = Idle
    /\ closeFailed' = (closeFailed \/ result = None)
    /\ UNCHANGED <<client, flags, args, cycle_num, side, i, status, closeRet,
                   net, listener, reader, log, signing, history>>

\* lines 240-247: one turn of the loop over the positions
CloseLoop ==
    /\ pc = "close_loop"
    /\ IF k > Len(positions)
       THEN /\ pc' = "close_over"
            /\ UNCHANGED <<k, raised, log, signing, result, net>>
       ELSE IF FloatRaises(positions[k])
       THEN /\ pc' = "close_over"
            /\ raised' = TRUE
            /\ UNCHANGED <<k, log, signing, result, net>>
       ELSE IF Skipped(positions[k])
       THEN /\ k' = k + 1
            /\ UNCHANGED <<pc, raised, log, signing, result, net>>
       ELSE /\ Request(ExecuteOrderReq(symbol, FlattenSide(positions[k]),
                                       Abs(NetSizeOf(positions[k])), "Market"),
                       "flatten", 0, k)
            /\ pc' = "close_order"
            /\ UNCHANGED <<k, raised>>
    /\ UNCHANGED <<client, flags, args, cycle_num, side, i, status, positions,
                   closeRet, noPosMsg, closeFailed, listener, reader, stopSeen,
                   closeSeen, cmdSeen>>

\* lines 247-248: the flattening order returned
FlattenReturn ==
    /\ pc = "close_order"
    /\ Returned
    /\ k' = k + 1
    /\ pc' = "close_loop"
    /\ result' = Idle
    /\ closeFailed' = (closeFailed \/ result = None)
    /\ UNCHANGED <<client, flags, args, cycle_num, side, i, status, positions,
                   closeRet, noPosMsg, net, listener, reader, log, signing,
                   history>>

\* close_all_positions is over, by return (lines 238, 248) or by the
\* exception of line 241: its locals are gone and the caller goes on
CloseOver ==
    /\ pc = "close_over"
    /\ pc' = CloseExit
    /\ positions' = <<>>
    /\ k' = 0
    /\ UNCHANGED <<client, flags, args, cycle_num, side, i, status, closeRet,
                   noPosMsg, closeFailed, result, net, listener, reader, log,
                   signing, history>>

(* ----------------------------- run_volume ------------------------------ *)

\* main_tui.py choice "2": run_volume is called; line 316 creates input_task
StartRun ==
    /\ pc = "menu"
    /\ \E sym \in Symbols, sz \in Sizes,
          n \in 0..MaxOrderCount, c \in 0..MaxCycles :
          /\ symbol' = sym
          /\ size' = sz
          /\ order_count' = n
          /\ cycles' = c
    /\ cycle_num' = 0
    /\ closeRet' = "run_volume"
    /\ listener' = "reading"
    /\ reader' = "blocked"
    /\ pc' = "loop_head"
    /\ UNCHANGED <<client, flags, side, i, status, positions, k, noPosMsg, closeFailed,
                   result, net, log, signing, history>>

\* main_tui.py choice "3": close_all_positions is called from the menu
StartClose ==
    /\ pc = "menu"
    /\ closeRet' = "tui"
    /\ CloseAllPositions(symbol)
    /\ UNCHANGED <<client, flags, args, cycle_num, side, i, status, listener, reader,
                   history>>

\* mutant of LoopHead: the while condition forgets "cycles == 0"
LoopHead_BoundedOnly ==
    /\ pc = "loop_head"
    /\ IF ~(cycle_num < cycles)
       THEN /\ pc' = "finally"
            /\ UNCHANGED <<cycle_num, side, i, positions, k, noPosMsg, closeFailed,
                           log, signing, result, net>>
       ELSE IF stop_requested
       THEN /\ pc' = "finally"
            /\ UNCHANGED <<cycle_num, side, i, positions, k, noPosMsg, closeFailed,
                           log, signing, result, net>>
       ELSE IF close_and_stop
       THEN /\ CloseAllPositions(symbol)
            /\ UNCHANGED <<cycle_num, side, i>>
       ELSE /\ cycle_num < MaxCycleNum
            /\ cycle_num' = cycle_num + 1
            /\ side' = "Bid"
            /\ i' = 0
            /\ pc' = "iter"
            /\ UNCHANGED <<positions, k, noPosMsg, closeFailed, log, signing, result, net>>
    /\ UNCHANGED <<client, flags, args, status, closeRet, listener, reader, history>>

\* lines 320-330: the while condition, the two flag tests, the next cycle
LoopHead ==
    /\ pc = "loop_head"
    /\ IF ~(cycles = 0 \/ cycle_num < cycles)
       THEN /\ pc' = "finally"
            /\ UNCHANGED <<cycle_num, side, i, positions, k, noPosMsg, closeFailed,
                           log, signing, result, net>>
       ELSE IF stop_requested
       THEN /\ pc' = "finally"
            /\ UNCHANGED <<cycle_num, side, i, positions, k, noPosMsg, closeFailed,
                           log, signing, result, net>>
       ELSE IF close_and_stop
       THEN /\ CloseAllPositions(symbol)
            /\ UNCHANGED <<cycle_num, side, i>>
       ELSE /\ cycle_num < MaxCycleNum
            /\ cycle_num' = cycle_num + 1
            /\ side' = "Bid"
            /\ i' = 0
            /\ pc' = "iter"
            /\ UNCHANGED <<positions, k, noPosMsg, closeFailed, log, signing, result, net>>
    /\ UNCHANGED <<client, flags, args, status, closeRet, listener, reader, history>>

\* where the end of a burst (range exhausted, or break) leads: line 344
\* after the buys, the while of line 320 after the sells
AfterBurst == IF side = "Bid" THEN "after_buy" ELSE "loop_head"

\* mutant of BurstIter: range(order_count + 1)
BurstIter_OffByOne ==
    /\ pc = "iter"
    /\ pc' = IF i <= order_count THEN "wait" ELSE AfterBurst
    /\ UNCHANGED <<client, flags, args, cycle_num, side, i, status, closeLocals,
                   result, net, listener, reader, log, signing, history>>

\* lines 333 and 348: for i in range(order_count)
BurstIter ==
    /\ pc = "iter"
    /\ pc' = IF i < order_count THEN "wait" ELSE AfterBurst
    /\ UNCHANGED <<client, flags, args, cycle_num, side, i, status, closeLocals,
                   result, net, listener, reader, log, signing, history>>

\* mutant of WaitIfPaused: lines 335 and 350 test close_and_stop only
WaitIfPaused_NoStopCheck ==
    /\ pc = "wait"
    /\ IF paused /\ ~stop_requested /\ ~close_and_stop
       THEN /\ pc' = "sleep"
            /\ UNCHANGED <<log, signing, result, net>>
       ELSE IF close_and_stop
       THEN /\ pc' = AfterBurst
            /\ UNCHANGED <<log, signing, result, net>>
       ELSE /\ Request(ExecuteOrderReq(symbol, side, size, "Market"),
                       "burst", cycle_num, i + 1)
            /\ pc' = "order"
    /\ UNCHANGED <<client, flags, args, cycle_num, side, i, status, closeLocals,
                   listener, reader, history>>

\* mutant of WaitIfPaused: the call of _wait_if_paused is missing
WaitIfPaused_NoPauseWait ==
    /\ pc = "wait"
    /\ IF stop_requested \/ close_and_stop
       THEN /\ pc' = AfterBurst
            /\ UNCHANGED <<log, signing, result, net>>
       ELSE /\ Request(ExecuteOrderReq(symbol, side, size, "Market"),
                       "burst", cycle_num, i + 1)
            /\ pc' = "order"
    /\ UNCHANGED <<client, flags, args, cycle_num, side, i, status, closeLocals,
                   listener, reader, history>>

\* mutant of WaitIfPaused: _wait_if_paused loops on "while client.paused"
WaitIfPaused_PauseBlocksStop ==
    /\ pc = "wait"
    /\ IF paused
       THEN /\ pc' = "sleep"
            /\ UNCHANGED <<log, signing, result, net>>
       ELSE IF stop_requested \/ close_and_stop
       THEN /\ pc' = AfterBurst
            /\ UNCHANGED <<log, signing, result, net>>
       ELSE /\ Request(ExecuteOrderReq(symbol, side, size, "Market"),
                       "burst", cycle_num, i + 1)
            /\ pc' = "order"
    /\ UNCHANGED <<client, flags, args, cycle_num, side, i, status, closeLocals,
                   listener, reader, history>>

\* lines 334-338 and 349-353: _wait_if_paused's test, the flag test, and
\* the call of execute_order, which run without a suspension in between
WaitIfPaused ==
    /\ pc = "wait"
    /\ IF paused /\ ~stop_requested /\ ~close_and_stop
       THEN /\ pc' = "sleep"
            /\ UNCHANGED <<log, signing, result, net>>
       ELSE IF stop_requested \/ close_and_stop
       THEN /\ pc' = AfterBurst
            /\ UNCHANGED <<log, signing, result, net>>
       ELSE /\ Request(ExecuteOrderReq(symbol, side, size, "Market"),
                       "burst", cycle_num, i + 1)
            /\ pc' = "order"
    /\ UNCHANGED <<client, flags, args, cycle_num, side, i, status, closeLocals,
                   listener, reader, history>>

\* line 400: asyncio.sleep(0.1) is over
SleepWake ==
    /\ pc = "sleep"
    /\ pc' = "wait"
    /\ UNCHANGED <<client, flags, args, cycle_num, side, i, status, closeLocals,
                   result, net, listener, reader, log, signing, history>>

\* mutant of OrderReturn: a failed order is submitted again
OrderReturn_RetryOnFailure ==
    /\ pc = "order"
    /\ Returned
    /\ status' = IF Truthy(result) THEN "success" ELSE "failure"
    /\ pc' = IF Truthy(result) THEN "delay" ELSE "wait"
    /\ UNCHANGED <<client, flags, args, cycle_num, side, i, closeLocals,
                   result, net, listener, reader, log, signing, history>>

\* lines 338-342 and 353-357: execute_order returned, the status is printed
OrderReturn ==
    /\ pc = "order"
    /\ Returned
    /\ status' = IF Truthy(result) THEN "success" ELSE "failure"
    /\ pc' = "delay"
    /\ UNCHANGED <<client, flags, args, cycle_num, side, i, closeLocals,
                   result, net, listener, reader, log, signing, history>>

\* lines 342 and 357: _random_delay is over
DelayDone ==
    /\ pc = "delay"
    /\ i' = i + 1
    /\ pc' = "iter"
    /\ result' = Idle
    /\ status' = "-"
    /\ UNCHANGED <<client, flags, args, cycle_num, side, closeLocals,
                   net, listener, reader, log, signing, history>>

\* mutant of AfterBuy: the sell burst is left out
AfterBuy_NoSells ==
    /\ pc = "after_buy"
    /\ pc' = IF stop_requested \/ close_and_stop THEN "finally" ELSE "loop_head"
    /\ UNCHANGED <<client, flags, args, cycle_num, side, i, status, closeLocals,
                   result, net, listener, reader, log, signing, history>>

\* lines 344-348
AfterBuy ==
    /\ pc = "after_buy"
    /\ IF stop_requested \/ close_and_stop
       THEN /\ pc' = "finally"
            /\ UNCHANGED <<side, i>>
       ELSE /\ side' = "Ask"
            /\ i' = 0
            /\ pc' = "iter"
    /\ UNCHANGED <<client, flags, args, cycle_num, status, closeLocals,
                   result, net, listener, reader, log, signing, history>>

\* lines 361-364: input_task.cancel(), then the await of input_task
Finally ==
    /\ pc = "finally"
    /\ listener' = "cancelled"
    /\ pc' = "join"
    /\ UNCHANGED <<reader, client, flags, args, cycle_num, side, i, status, closeLocals,
                   result, net, log, signing, history>>

\* mutant of ResetFlags: close_and_stop is not reset
ResetFlags_KeepsClose ==
    /\ pc = "join"
    /\ listener = "none"
    /\ paused' = FALSE
    /\ stop_requested' = FALSE
    /\ pc' = "done"
    /\ UNCHANGED <<client, args, cycle_num, side, i, status, closeLocals,
                   result, net, listener, reader, log, signing, history, close_and_stop>>

\* lines 364-371: input_task is over; the flags are reset
ResetFlags ==
    /\ pc = "join"
    /\ listener = "none"
    /\ paused' = FALSE
    /\ stop_requested' = FALSE
    /\ close_and_stop' = FALSE
    /\ pc' = "done"
    /\ UNCHANGED <<client, args, cycle_num, side, i, status, closeLocals,
                   result, net, listener, reader, log, signing, history>>

\* back in tui_loop: the locals of the call are gone
ReturnToMenu ==
    /\ pc = "done"
    /\ pc' = "menu"
    /\ cycle_num' = 0
    /\ side' = "-"
    /\ i' = 0
    /\ status' = "-"
    /\ positions' = <<>>
    /\ k' = 0
    /\ closeRet' = "-"
    /\ noPosMsg' = FALSE
    /\ closeFailed' = FALSE
    /\ result' = Idle
    /\ log' = <<>>
    /\ sign_args' = NoSign
    /\ sign_str' = ""
    /\ stopSeen' = FALSE
    /\ closeSeen' = FALSE
    /\ cmdSeen' = FALSE
    /\ raised' = FALSE
    /\ UNCHANGED <<client, flags, args, net, listener, reader>>

(* --------------------------- specification ---------------------------- *)

Controller ==
    \/ StartRun
    \/ StartClose
    \/ LoopHead
    \/ BurstIter
    \/ WaitIfPaused
    \/ SleepWake
    \/ OrderReturn
    \/ DelayDone
    \/ AfterBuy
    \/ CancelReturn
    \/ QueryReturn
    \/ CloseLoop
    \/ FlattenReturn
    \/ CloseOver
    \/ Finally
    \/ ResetFlags
    \/ ReturnToMenu

Next ==
    \/ Controller
    \/ HandleInput
    \/ ListenerExit
    \/ StaleRead
    \/ NetRespond

Spec == Init /\ [][Next]_vars

\* a Live client on which _sign is about to be called with some
\* instruction, parameter mapping and clock reading
SignInit ==
    /\ api_key = "key"
    /\ api_secret \in ValidSecrets
    /\ simulated = SimulatedMode(api_key, api_secret)
    /\ private_key = PrivateKeyOf(api_key, api_secret)
    /\ sign_args \in [instruction : Instructions, params : ParamMappings,
                       timestamp : Timestamps, window : {WindowMs}]
    /\ sign_str = ""
    /\ paused = FALSE /\ stop_requested = FALSE /\ close_and_stop = FALSE
    /\ pc = "menu"
    /\ symbol = "SOL" /\ size = 1000 /\ order_count = 1 /\ cycles = 1
    /\ cycle_num = 0 /\ side = "-" /\ i = 0 /\ status = "-"
    /\ positions = <<>> /\ k = 0 /\ closeRet = "-" /\ noPosMsg = FALSE
    /\ closeFailed = FALSE
    /\ result = Idle /\ net = {}
    /\ listener = "none" /\ reader = "none"
    /\ log = <<>>
    /\ stopSeen = FALSE /\ closeSeen = FALSE /\ cmdSeen = FALSE
    /\ raised = FALSE

\* lines 67-86: _sign builds sign_str from its arguments
Sign ==
    /\ sign_str = ""
    /\ ~simulated
    /\ sign_str' = SignStr(sign_args.instruction, sign_args.params,
                           sign_args.timestamp, sign_args.window)
    /\ UNCHANGED <<client, flags, pc, args, cycle_num, side, i, status,
                   closeLocals, result, net, listener, reader, log, sign_args,
                   history>>

SignSpec == SignInit /\ [][Sign]_vars

(* ------------------------- vocabulary of the claims ------------------- *)

LogIndices == 1..Len(log)

\* the call being looked at is a run of run_volume (not the menu's close)
InRun == closeRet = "run_volume"

\* close_all_positions has been invoked in this call
CloseInvoked == \E n \in LogIndices : log[n].instr = "orderCancelAll"

\* this step dispatches a request
Dispatches == Len(log') = Len(log) + 1

\* this step submits an order (burst or flattening)
SubmitsOrder == Dispatches /\ log'[Len(log')].instr = "orderExecute"

\* this step submits a Bid/Ask order of a burst
SubmitsBurst == SubmitsOrder /\ log'[Len(log')].kind = "burst"

AllFlagsFalse == ~paused /\ ~stop_requested /\ ~close_and_stop

(* ------------------------------ claims -------------------------------- *)

\* C1 (as stated): whenever close_and_stop became true during a run,
\* close_all_positions has been invoked by the time the run is Done.
C1_CloseBeforeDone ==
    (pc = "done" /\ InRun /\ closeSeen) => CloseInvoked

\* C2 (as stated): once stop_requested is true, no order at all is
\* submitted any more.
C2_NoOrderAfterStop ==
    [][stop_requested => ~SubmitsOrder]_vars

\* C2 (amended): once stop_requested is true no burst order is submitted and
\* close_all_positions is not started, and each check point (lines 321, 335,
\* 344, 350) leaves the loop; the only requests still dispatched are those
\* of a close_all_positions that was already under way.
C2_StopBoundary ==
    [][stop_requested =>
          /\ ~SubmitsBurst
          /\ Dispatches => pc \in {"close_cancel", "close_loop"}
          /\ pc \in {"loop_head", "after_buy"} => pc' = "finally"
          /\ pc = "wait" => pc' = AfterBurst]_vars

\* C2 witness: an unbounded run of two-order bursts that a stop ended
\* after its first order.
C2_Witness ==
    /\ pc = "done" /\ InRun /\ stopSeen /\ ~closeSeen
    /\ order_count = 2 /\ cycles = 0 /\ Len(log) = 1

\* C3 (as stated): while paused is true no order is submitted, burst or
\* flattening.
C3_NoOrderWhilePaused ==
    [][paused => ~SubmitsOrder]_vars

\* C3 (amended): while paused is true no burst order is submitted, and
\* nothing at all is dispatched unless a stop or close flag is set; the
\* flattening orders of close_all_positions do not look at paused.
C3_PauseFreeze ==
    [][paused =>
          /\ ~SubmitsBurst
          /\ (~stop_requested /\ ~close_and_stop) => ~Dispatches]_vars

\* C3 witness: the controller sleeps in _wait_if_paused in the middle of a
\* burst, with neither stop nor close requested.
C3_Witness ==
    /\ pc = "sleep" /\ paused /\ ~stop_requested /\ ~close_and_stop
    /\ Len(log) >= 1 /\ i >= 1

\* C4: when run_volume has ended all three flags are false, and they stay
\* false until the next run: the listener of the run is gone.
C4_ResetOnExit ==
    pc \in {"done", "menu"} => (AllFlagsFalse /\ listener = "none")

\* C4 witness: a run that saw both q and c has ended.
C4_Witness ==
    pc = "done" /\ InRun /\ stopSeen /\ closeSeen /\ cmdSeen

\* C5: with cycles = 0 the loop is left only after stop_requested or
\* close_and_stop was set, and with neither set the head of the loop starts
\* the next cycle (as far as the model counts cycles).
C5_UnboundedCycles ==
    /\ []((InRun /\ cycles = 0 /\ pc \in {"finally", "join", "done"})
            => (stopSeen \/ closeSeen))
    /\ [][(cycles = 0 /\ pc = "loop_head" /\ ~stop_requested /\ ~close_and_stop)
            => (pc' = "iter" /\ cycle_num' = cycle_num + 1)]_vars

\* C5 witness: an unbounded run that went through several cycles before it
\* was stopped.
C5_Witness ==
    /\ pc = "done" /\ InRun /\ cycles = 0 /\ stopSeen
    /\ cycle_num >= 2 /\ order_count >= 1

\* the order that C repetitions of (N Bid, N Ask) put at place n
ExpectedBurst(n) ==
    LET per == 2 * order_count
        w == (n - 1) % per
    IN  [instr |-> "orderExecute", symbol |-> symbol \o "_USDC",
         side |-> IF w < order_count THEN "Bid" ELSE "Ask",
         orderType |-> "Market", quantity |-> size, kind |-> "burst",
         cycle |-> ((n - 1) \div per) + 1, idx |-> (w % order_count) + 1]

Submitted(n) ==
    [instr |-> log[n].instr, symbol |-> log[n].symbol, side |-> log[n].side,
     orderType |-> log[n].orderType, quantity |-> log[n].quantity,
     kind |-> log[n].kind, cycle |-> log[n].cycle, idx |-> log[n].idx]

Qualifies(pos) ==
    pos.shape = "num" /\ (pos.netSize >= FlatThreshold \/ -pos.netSize >= FlatThreshold)

ClaimedFlatten(pos) ==
    [side |-> IF pos.netSize > 0 THEN "Ask" ELSE "Bid",
     quantity |-> IF pos.netSize < 0 THEN -pos.netSize ELSE pos.netSize,
     orderType |-> "Market"]

RECURSIVE ExpectedFlatten(_)
ExpectedFlatten(ps) ==
    IF ps = <<>> THEN <<>>
    ELSE IF Qualifies(Head(ps))
         THEN <<ClaimedFlatten(Head(ps))>> \o ExpectedFlatten(Tail(ps))
         ELSE ExpectedFlatten(Tail(ps))

RECURSIVE FlattenOrders(_)
FlattenOrders(l) ==
    IF l = <<>> THEN <<>>
    ELSE IF Head(l).kind = "flatten"
         THEN <<[side |-> Head(l).side, quantity |-> Head(l).quantity,
                 orderType |-> Head(l).orderType]>> \o FlattenOrders(Tail(l))
         ELSE FlattenOrders(Tail(l))

CancelBeforeQuery ==
    \A n \in LogIndices :
        log[n].instr = "positionQuery" =>
            \E m \in 1..(n - 1) : log[m].instr = "orderCancelAll"

\* C7 (as stated): when an execution of close_all_positions is over, the
\* cancel-all call came before the position query, and the flattening
\* orders submitted are exactly one Market order per returned position
\* with |netSize| >= 0.0001, on the opposite side, for |netSize|.
C7_FlattenOrdering ==
    pc = "close_over" =>
        /\ CancelBeforeQuery
        /\ FlattenOrders(log) = ExpectedFlatten(positions)

\* C7, for the executions in which float() does not raise: the statement
\* above holds of them.
C7_FlattenOrderingNoRaise ==
    (pc = "close_over" /\ ~raised) =>
        /\ CancelBeforeQuery
        /\ FlattenOrders(log) = ExpectedFlatten(positions)

\* C8: the mode is the one decided at construction and never changes; a
\* Simulated client puts nothing on the wire and never signs; nothing is
\* ever signed without a private key.
C8_ModePurity ==
    /\ [](/\ simulated <=> (api_key = "" \/ api_secret = ""
                              \/ api_secret \notin ValidSecrets)
          /\ simulated <=> (private_key = "none")
          /\ simulated => (net = {} /\ \A n \in LogIndices :
                              log[n].via = "sim" /\ log[n].signedWith = "-")
          /\ \A n \in LogIndices : log[n].signedWith # "none")
    /\ [][simulated' = simulated /\ private_key' = private_key]_vars

\* C8 witness: a Simulated client has gone through a run with orders and a
\* close_all_positions.
C8_Witness ==
    /\ simulated /\ pc = "done" /\ InRun /\ CloseInvoked /\ Len(log) >= 4

\* C9: at most one request of the controller is in flight, and no cycle
\* step (cycle number, side, index in the burst) is submitted twice.
C9_Sequential ==
    /\ Cardinality(net) <= 1
    /\ \A m, n \in LogIndices :
          (m # n /\ log[m].kind = "burst" /\ log[n].kind = "burst") =>
              <<log[m].cycle, log[m].side, log[m].idx>>
                  # <<log[n].cycle, log[n].side, log[n].idx>>

\* C9 witness: the second order of a burst has failed and the controller
\* is in the delay after it, having been paused and resumed or otherwise
\* commanded on the way.
C9_Witness ==
    /\ pc = "delay" /\ status = "failure" /\ i = 1 /\ side = "Ask"
    /\ cycle_num = 2 /\ cmdSeen /\ ~paused

\* the scheduling of the event loop: whatever is ready runs. A ready
\* coroutine is resumed, a Live call returns (the premise of C10), a
\* cancelled task is ended; at most one of the three is enabled in a state.
\* The operator is free never to type anything.
FairSpec ==
    /\ Spec
    /\ WF_vars(Controller \/ NetRespond \/ ListenerExit)

\* C10: in a run with order_count >= 1, once stop_requested or
\* close_and_stop is true the run reaches Done, also when paused stays
\* true; and _wait_if_paused does not go back to sleep when it finds paused
\* false.
C10_Progress ==
    /\ (InRun /\ order_count >= 1 /\ (stop_requested \/ close_and_stop))
          ~> (pc = "done")
    /\ [][(pc = "wait" /\ ~paused) => pc' # "sleep"]_vars

\* C10 witness: a stop arrived while the controller sleeps in
\* _wait_if_paused with paused still true.
C10_Witness ==
    pc = "sleep" /\ paused /\ stop_requested /\ ~close_and_stop

\* C11 (as stated): when run_volume has returned nothing of its listener is
\* left: the task is over and no thread of it reads the operator's input;
\* and the listener ends by cancellation only.
C11_NoDanglingListener ==
    /\ [](pc \in {"done", "menu"} => (listener = "none" /\ reader = "none"))
    /\ [][(listener = "reading" /\ listener' # "reading") => pc = "finally"]_vars

\* C11, the part about the task alone: run_volume returns after the task
\* is over, and the task ends by cancellation only.
C11_TaskJoined ==
    /\ [](pc \in {"done", "menu"} => listener = "none")
    /\ [][(listener = "reading" /\ listener' # "reading") => pc = "finally"]_vars

\* what the claim says a command does to the flags
ClaimedFlags(cmd, f) ==
    CASE cmd = "p" -> [f EXCEPT !.paused = TRUE]
      [] cmd = "r" -> [f EXCEPT !.paused = FALSE]
      [] cmd = "q" -> [f EXCEPT !.stop_requested = TRUE]
      [] cmd = "c" -> [f EXCEPT !.close_and_stop = TRUE]
      [] OTHER -> f

\* the step by which run_volume resets the flags on its way out
IsResetStep == pc = "join" /\ pc' = "done"

\* C12: whatever the flags are when a line arrives, the line changes its
\* own flag only (p, r: paused; q: stop_requested; c: close_and_stop; any
\* other line: nothing); every step that changes a flag is such a step of
\* the listener or the reset at the exit of run_volume; stop_requested and
\* close_and_stop go back to false at that reset only.
C12_CommandFrame ==
    /\ [](listener = "reading" =>
            \A line \in InputLines :
                FlagsAfter(StripLower(line), FlagsNow)
                    = ClaimedFlags(StripLower(line), FlagsNow))
    /\ [][flags' # flags =>
            \/ IsResetStep
            \/ /\ listener = "reading" /\ pc' = pc
               /\ \E cmd \in {"p", "r", "q", "c"} :
                     FlagsNow' = ClaimedFlags(cmd, FlagsNow)]_vars
    /\ [][((stop_requested /\ ~stop_requested')
             \/ (close_and_stop /\ ~close_and_stop')) => IsResetStep]_vars

\* C12 witness: the listener has set all three flags, one command each,
\* and the run is still inside its loop.
C12_Witness ==
    /\ listener = "reading" /\ pc = "delay"
    /\ paused /\ stop_requested /\ close_and_stop

\* C13 (as stated): when close_all_positions returns, "no positions to
\* close" has been reported if no returned position reaches the threshold
\* (the list is empty, or every |netSize| is below 0.0001), and has not
\* been reported if a flattening order was submitted.
C13_NoPositionsReport ==
    (pc = "close_over" /\ ~raised) =>
        /\ (\A j \in 1..Len(positions) : ~Qualifies(positions[j])) => noPosMsg
        /\ FlattenOrders(log) # <<>> => ~noPosMsg

\* C13, what the code does: the message is reported exactly when the
\* normalised list of positions is empty.
C13_ReportOnEmptyList ==
    pc = "close_over" => (noPosMsg <=> positions = <<>>)

\* the insertion orders of a parameter mapping
InsertionOrders(ps) ==
    {q \in [1..Len(ps) -> {ps[j] : j \in 1..Len(ps)}] :
        \A j \in 1..Len(ps) : \E n \in 1..Len(ps) : q[n] = ps[j]}

\* a value as the claim wants it in the string
ClaimedText(v) ==
    IF v = BoolVal(TRUE) THEN "true"
    ELSE IF v = BoolVal(FALSE) THEN "false"
    ELSE v.s

\* "&key=value" for the keys from the n-th of KeyOrder on that the mapping
\* holds with a value other than None, in ascending order
RECURSIVE ClaimedPairs(_, _)
ClaimedPairs(ps, n) ==
    IF n > Len(KeyOrder) THEN ""
    ELSE LET here == {j \in 1..Len(ps) :
                        ps[j].key = KeyOrder[n] /\ ps[j].val # NoneVal}
         IN  (IF here = {} THEN ""
              ELSE "&" \o KeyOrder[n] \o "="
                       \o ClaimedText(ps[CHOOSE j \in here : TRUE].val))
               \o ClaimedPairs(ps, n + 1)

\* C14: once _sign has built sign_str, every insertion order of the same
\* parameter mapping gives that same string, and the string is the
\* instruction, then the entries whose value is not None in ascending key
\* order with booleans as "true"/"false", then timestamp and window.
C14_SignDeterminism ==
    sign_str # "" =>
        /\ \A q \in InsertionOrders(sign_args.params) :
              SignStr(sign_args.instruction, q, sign_args.timestamp,
                      sign_args.window) = sign_str
        /\ sign_str = "instruction=" \o sign_args.instruction
                         \o ClaimedPairs(sign_args.params, 1)
                         \o "&timestamp=" \o sign_args.timestamp
                         \o "&window=" \o sign_args.window

\* C14 witness: _sign has been called with a mapping of three entries that
\* are not in key order, one of them None and one of them True.
C14_Witness ==
    /\ sign_str # "" /\ Len(sign_args.params) = 3
    /\ sign_args.params[1].key = "symbol"
    /\ sign_args.params[2].val = NoneVal
    /\ sign_args.params[3].val = BoolVal(TRUE)

\* a failed order is followed by the next turn of its burst
FailedOrderGoesOn ==
    (pc = "delay" /\ status = "failure" /\ pc' # pc) =>
        (pc' = "iter" /\ i' = i + 1)

\* a run leaves its loop by cycle exhaustion or after a stop/close command
EndsByCountOrCommand ==
    (InRun /\ pc = "finally") =>
        (stopSeen \/ closeSeen \/ (cycles > 0 /\ cycle_num = cycles))

\* C15 (as stated): nothing is ever raised out of the dispatcher or an
\* order operation (a malformed position record is defaulted), a failed
\* order is followed by the next order of the burst, and a run ends only
\* by cycle exhaustion or a stop/close command.
C15_NoUnwinding ==
    /\ [](~raised)
    /\ [][FailedOrderGoesOn]_vars
    /\ [](EndsByCountOrCommand)

\* C15, the part about the dispatcher and the bursts: it holds also of the
\* executions in which close_all_positions raises.
C15_DispatchContained ==
    /\ [][FailedOrderGoesOn]_vars
    /\ [](EndsByCountOrCommand)

\* C16 (as stated): the order just submitted by run_volume is reported as
\* success exactly when its dispatch returned a result, an empty one
\* included, and as failure exactly when the dispatch reported a failure.
C16_ReportMatchesDispatch ==
    pc = "delay" =>
        /\ status \in {"success", "failure"}
        /\ status = "success" <=> result # None

\* C16, what the code does: an order is reported as success exactly when
\* the value returned is truthy, so an empty result counts as a failure.
C16_ReportsTruthiness ==
    pc = "delay" =>
        /\ status \in {"success", "failure"}
        /\ status = "success" <=> (result # None /\ result.items # <<>>)

\* the delay has run to its end and the loop goes on to its next turn
DelayRanOut == pc = "delay" /\ pc' = "iter" /\ i' = i + 1

\* C17 (as stated): a delay during which a stop, close or pause command
\* has arrived does not run to its end: the flags are acted on from inside
\* the delay.
C17_DelayIsCheckPoint ==
    [][(pc = "delay" /\ (stop_requested \/ close_and_stop \/ paused))
          => ~DelayRanOut]_vars

\* C17, what the code does: the only way out of a delay is its end,
\* whatever the flags are; they are read after it, before the next order.
C17_DelayRunsToEnd ==
    [][(pc = "delay" /\ pc' # pc) => DelayRanOut]_vars

\* the position at place j of the list got its flattening order
Flattened(j) ==
    \E n \in LogIndices : log[n].kind = "flatten" /\ log[n].idx = j

\* C18 (as stated): when close_all_positions is over and one of its calls
\* (cancel-all, a flattening order) failed on the way, the positions were
\* queried and every position of the list with |netSize| >= 0.0001 got
\* its flattening order all the same.
C18_BestEffort ==
    (pc = "close_over" /\ closeFailed) =>
        /\ \E n \in LogIndices : log[n].instr = "positionQuery"
        /\ \A j \in 1..Len(positions) : Qualifies(positions[j]) => Flattened(j)

\* C18, for the executions in which float() does not raise: no failure of
\* a call keeps the loop from its next turn, and every position that
\* reaches the threshold gets its order.
C18_BestEffortNoRaise ==
    /\ []((pc = "close_over" /\ closeFailed /\ ~raised) =>
            /\ \E n \in LogIndices : log[n].instr = "positionQuery"
            /\ \A j \in 1..Len(positions) :
                  Qualifies(positions[j]) => Flattened(j))
    /\ [][(pc = "close_order" /\ pc' # pc) =>
            (pc' = "close_loop" /\ k' = k + 1)]_vars

\* the places of the controller from the call of close_all_positions on
ClosingOrAfter ==
    {"close_cancel", "close_query", "close_loop", "close_order", "close_over",
     "finally", "join", "done"}

\* C19: in a run, close_all_positions is invoked at most once, no burst
\* order follows its invocation, and from it the run goes to Done only.
C19_CloseOnceThenDone ==
    InRun =>
        /\ Cardinality({n \in LogIndices : log[n].instr = "orderCancelAll"}) <= 1
        /\ \A m, n \in LogIndices :
              (m < n /\ log[m].instr = "orderCancelAll") => log[n].kind # "burst"
        /\ CloseInvoked => pc \in ClosingOrAfter

\* C19 witness: a run on a Live client has submitted burst orders, then
\* closed a position, and is Done.
C19_Witness ==
    /\ pc = "done" /\ InRun /\ ~raised
    /\ \E m, n \in LogIndices :
          m < n /\ log[m].kind = "burst" /\ log[n].kind = "flatten"

\* the burst orders of a side submitted so far
BurstCount(sd) ==
    Cardinality({n \in LogIndices : log[n].kind = "burst" /\ log[n].side = sd})

\* C20: in a run, the Bid burst orders submitted so far are at least as
\* many as the Ask ones and at most order_count more; they are as many
\* when the run has left its loop with no stop or close command received,
\* that is, by reaching its cycle count.
C20_BidAskBalance ==
    InRun =>
        /\ BurstCount("Bid") - BurstCount("Ask") >= 0
        /\ BurstCount("Bid") - BurstCount("Ask") <= order_count
        /\ (pc \in {"finally", "join", "done"} /\ ~stopSeen /\ ~closeSeen) =>
              (BurstCount("Bid") = BurstCount("Ask") /\ cycle_num = cycles)

\* C20 witness: a run of two-order bursts on a Live client was stopped in
\* its second cycle, with both Bid orders out and no Ask order yet.
C20_Witness ==
    /\ pc = "after_buy" /\ InRun /\ order_count = 2 /\ cycle_num = 2
    /\ BurstCount("Bid") - BurstCount("Ask") = 2
    /\ stop_requested /\ ~simulated

=============================================================================
